---------------------------- MODULE Spec2Model ----------------------------
(***************************************************************************)
(* The per-track audio effects and mixing engine of soundshare:            *)
(*   - the multi-stem player (components/MultiTrackPlayer.tsx, 43-869)     *)
(*   - the single-track player TrackCard (same file, 870-2256, the newer   *)
(*     copy of components/TrackCard.tsx)                                   *)
(* Fractions are scaled by 100 (a wet mix of 0.35 is 35, a playback rate   *)
(* of 0.5 is 50); gains and volume are dB, pitch is semitones.             *)
(***************************************************************************)
EXTENDS Integers, Sequences, FiniteSets, TLC

(* ------------------------------ bounds --------------------------------- *)
NumStems == 2
MaxClock == 2
MaxHist == 3
MaxParamOps == 2

Stems == 1..NumStems

(***************************************************************************)
(* Multi-stem player state                                                 *)
(***************************************************************************)
VARIABLES
  isPlaying,        \* useState(false)
  isLoading,        \* useState(true)
  stemStates,       \* per-stem control state
  stemPlayersRef,   \* per-stem engine nodes (player, volume, eq, effects)
  loadState,        \* per-stem outcome of the asynchronous buffer load
  loadedCount,      \* closure counter of initializeStems
  now,              \* the scheduling reference captured by the play branch
  clock,            \* the engine clock, Tone.now()
  paramOps,         \* number of parameter writes made so far
  hist              \* the operations performed since the session was built

stemVars == <<isPlaying, isLoading, stemStates, stemPlayersRef, loadState,
              loadedCount, now, clock, paramOps, hist>>

(***************************************************************************)
(* Single-track player (TrackCard) state                                   *)
(***************************************************************************)
VARIABLES
  card,          \* the React state of the component
  player,        \* playerRef.current: transport state, loop, playbackRate
  pitchShifter,  \* pitchShifterRef.current.pitch
  connections,   \* the edges of the audio graph, <<from, to>>
  formatRecorder,\* the recorder created by downloadTransformed
  pendingStops,  \* onstop notifications the engine has not delivered yet
  dl,            \* the locals of the downloadTransformed call in flight
  supported,     \* the MIME types MediaRecorder.isTypeSupported accepts
  outcome,       \* what the last download attempt showed the user
  eq3,           \* eq3Ref.current: low/mid/high gains, in 1/60 dB
  seek,          \* the last gesture on the transport, if it was a seek
  effectUnits    \* the wet level of reverb, delay, distortion and chorus

cardVars == <<card, player, pitchShifter, connections, formatRecorder,
              pendingStops, dl, supported, outcome, eq3, seek, effectUnits>>

(***************************************************************************)
(* Life cycle of the multi-stem view and of its engine nodes               *)
(***************************************************************************)
VARIABLES
  life,          \* mounted: the view is on the page;
                 \* pc: where the initializeStems call of the mount stands
  stemNodes      \* per stem: its nodes exist, and how often they were disposed

lifeVars == <<life, stemNodes>>

(***************************************************************************)
(* Progress polling of both players                                        *)
(***************************************************************************)
VARIABLES
  intervalRef    \* per component: whether the timer intervalRef.current
                 \* names is running, and how many timers run unnamed

vars == <<stemVars, cardVars, lifeVars, intervalRef>>

MaxOrphans == 2

NoTimer == [running |-> FALSE, orphans |-> 0]

(* intervalRef.current = setInterval(...): the timer named so far is not   *)
(* cleared, it runs on without a name                                      *)
SetInterval(t) ==
  [running |-> TRUE, orphans |-> t.orphans + (IF t.running THEN 1 ELSE 0)]

(* setInterval is followed as long as the count of unnamed timers stays    *)
(* within MaxOrphans                                                       *)
CanSetInterval(t) == t.running => t.orphans < MaxOrphans

(* if (intervalRef.current) clearInterval(intervalRef.current) *)
ClearInterval(t) == [t EXCEPT !.running = FALSE]

TimersInit == intervalRef = [session |-> NoTimer, card |-> NoTimer]

NoTime == -1

(* initialStates[stem.id] *)
InitialStemState ==
  [muted |-> FALSE, solo |-> FALSE, volume |-> 0, lowGain |-> 0,
   midGain |-> 0, highGain |-> 0, reverbEnabled |-> FALSE, reverbMix |-> 35,
   delayEnabled |-> FALSE, delayTime |-> 25, delayFeedback |-> 40,
   delayMix |-> 25, distortionEnabled |-> FALSE, distortionAmount |-> 25,
   pitchShift |-> 0, envelopeEnabled |-> FALSE, attack |-> 1, decay |-> 10,
   sustain |-> 100, release |-> 50]

(* the nodes created for one stem, with their constructor values *)
InitialStemPlayer ==
  [state |-> "stopped", startTime |-> NoTime, loop |-> TRUE,
   mute |-> FALSE, volume |-> 0, low |-> 0, mid |-> 0, high |-> 0,
   reverbWet |-> 0, delayTime |-> 25, delayFeedback |-> 40, delayWet |-> 0,
   distortion |-> 25, distortionWet |-> 0, pitch |-> 0,
   attack |-> 1, decay |-> 10, sustain |-> 100, release |-> 50]

(* ------------------------------ history -------------------------------- *)
Overflow == << <<"more", 0>> >>

Record(op) ==
  IF hist = Overflow \/ Len(hist) >= MaxHist THEN Overflow
  ELSE Append(hist, op)

(* --------------------------- initialisation ---------------------------- *)
StemInit ==
  /\ isPlaying = FALSE
  /\ isLoading = TRUE
  /\ stemStates = [s \in Stems |-> InitialStemState]
  /\ stemPlayersRef = [s \in Stems |-> InitialStemPlayer]
  /\ loadState = [s \in Stems |-> "loading"]
  /\ loadedCount = 0
  /\ now = NoTime
  /\ clock = 0
  /\ paramOps = 0
  /\ hist = <<>>

(* Player onload callback *)
OnLoad(s) ==
  /\ loadState[s] = "loading"
  /\ loadState' = [loadState EXCEPT ![s] = "loaded"]
  /\ loadedCount' = loadedCount + 1
  /\ isLoading' = IF loadedCount + 1 = NumStems THEN FALSE ELSE isLoading
  /\ UNCHANGED <<isPlaying, stemStates, stemPlayersRef, now, clock,
                 paramOps, hist>>
  /\ UNCHANGED <<cardVars, lifeVars, intervalRef>>

(* mutant: a failed load is not counted *)
OnErrorUncounted(s) ==
  /\ loadState[s] = "loading"
  /\ loadState' = [loadState EXCEPT ![s] = "failed"]
  /\ UNCHANGED <<isPlaying, isLoading, stemStates, stemPlayersRef, loadedCount,
                 now, clock, paramOps, hist>>
  /\ UNCHANGED <<cardVars, lifeVars, intervalRef>>

(* Player onerror callback *)
OnError(s) ==
  /\ loadState[s] = "loading"
  /\ loadState' = [loadState EXCEPT ![s] = "failed"]
  /\ loadedCount' = loadedCount + 1
  /\ isLoading' = IF loadedCount + 1 = NumStems THEN FALSE ELSE isLoading
  /\ UNCHANGED <<isPlaying, stemStates, stemPlayersRef, now, clock,
                 paramOps, hist>>
  /\ UNCHANGED <<cardVars, lifeVars, intervalRef>>

(* the engine clock advances *)
Tick ==
  /\ clock < MaxClock
  /\ clock' = clock + 1
  /\ UNCHANGED <<isPlaying, isLoading, stemStates, stemPlayersRef, loadState,
                 loadedCount, now, paramOps, hist>>
  /\ UNCHANGED <<cardVars, lifeVars, intervalRef>>

(* ------------------------------ mute/solo ------------------------------ *)
HasSolo(states) == \E t \in Stems : states[t].solo

(* mutant: without a solo'd stem every stem is unmuted *)
SoloMuteForget(states, id) ==
  IF HasSolo(states)
  THEN (IF states[id].solo THEN states[id].muted ELSE TRUE)
  ELSE FALSE

(* the volume.mute value both the play branch and the solo case compute *)
SoloMute(states, id) ==
  IF HasSolo(states)
  THEN (IF states[id].solo THEN states[id].muted ELSE TRUE)
  ELSE states[id].muted

(* audibility of a voice as the spec defines it *)
Audibility(states, id) ==
  IF HasSolo(states) THEN states[id].solo /\ ~states[id].muted
  ELSE ~states[id].muted

(* what the engine lets through *)
Audible(id) == ~stemPlayersRef[id].mute


(* mutant: muting implemented by stopping the player *)
MutedCaseStop(stem, value) ==
  [stem EXCEPT !.mute = value,
               !.state = IF value THEN "stopped" ELSE stem.state]

(* case 'muted': the flag is written as given *)
MutedCase(stem, value) == [stem EXCEPT !.mute = value]

(* case 'solo': every stem's flag is recomputed from the new states *)
SoloCase(ref, stemId, value) ==
  LET newStates == [stemStates EXCEPT ![stemId].solo = value]
  IN  [id \in Stems |-> [ref[id] EXCEPT !.mute = SoloMute(newStates, id)]]

(* mutant: an effect comes back with the mix it was constructed for *)
EnabledCaseDefault(st, stem, param, value) ==
  CASE param = "reverbEnabled" ->
         [stem EXCEPT !.reverbWet = IF value THEN 35 ELSE 0]
    [] param = "delayEnabled" ->
         [stem EXCEPT !.delayWet = IF value THEN 25 ELSE 0]
    [] param = "distortionEnabled" ->
         [stem EXCEPT !.distortionWet = IF value THEN 50 ELSE 0]
    [] OTHER -> stem

(* cases 'reverbEnabled', 'delayEnabled', 'distortionEnabled': the nodes  *)
(* of one stem after the write, st being its stored state; there is no    *)
(* case for 'envelopeEnabled'                                             *)
EnabledCase(st, stem, param, value) ==
  CASE param = "reverbEnabled" ->
         [stem EXCEPT !.reverbWet = IF value THEN st.reverbMix ELSE 0]
    [] param = "delayEnabled" ->
         [stem EXCEPT !.delayWet = IF value THEN st.delayMix ELSE 0]
    [] param = "distortionEnabled" ->
         [stem EXCEPT !.distortionWet = IF value THEN 50 ELSE 0]
    [] OTHER -> stem

(* mutant: the mix is written to the engine whether or not the effect is  *)
(* enabled                                                                *)
MixCaseUnguarded(st, stem, param, value) ==
  CASE param = "reverbMix" -> [stem EXCEPT !.reverbWet = value]
    [] param = "delayMix" -> [stem EXCEPT !.delayWet = value]
    [] OTHER -> stem

(* cases 'reverbMix' and 'delayMix': the nodes of one stem after the      *)
(* write, st being its stored state                                       *)
MixCase(st, stem, param, value) ==
  CASE param = "reverbMix" ->
         IF st.reverbEnabled THEN [stem EXCEPT !.reverbWet = value] ELSE stem
    [] param = "delayMix" ->
         IF st.delayEnabled THEN [stem EXCEPT !.delayWet = value] ELSE stem
    [] OTHER -> stem

(* the switch of updateStemParam: the engine nodes after the write *)
ApplyStemParam(stemId, param, value) ==
  LET ref  == stemPlayersRef
      stem == stemPlayersRef[stemId]
      st   == stemStates[stemId]
  IN CASE param = "volume" -> [ref EXCEPT ![stemId].volume = value]
       [] param = "muted" -> [ref EXCEPT ![stemId] = MutedCase(stem, value)]
       [] param = "solo" -> SoloCase(ref, stemId, value)
       [] param = "lowGain" -> [ref EXCEPT ![stemId].low = value]
       [] param = "midGain" -> [ref EXCEPT ![stemId].mid = value]
       [] param = "highGain" -> [ref EXCEPT ![stemId].high = value]
       [] param \in {"reverbEnabled", "delayEnabled", "distortionEnabled"} ->
            [ref EXCEPT ![stemId] = EnabledCase(st, stem, param, value)]
       [] param \in {"reverbMix", "delayMix"} ->
            [ref EXCEPT ![stemId] = MixCase(st, stem, param, value)]
       [] param = "delayTime" -> [ref EXCEPT ![stemId].delayTime = value]
       [] param = "delayFeedback" ->
            [ref EXCEPT ![stemId].delayFeedback = value]
       [] param = "distortionAmount" ->
            [ref EXCEPT ![stemId].distortion = value]
       [] param = "pitchShift" -> [ref EXCEPT ![stemId].pitch = value]
       [] param = "attack" -> [ref EXCEPT ![stemId].attack = value]
       [] param = "decay" -> [ref EXCEPT ![stemId].decay = value]
       [] param = "sustain" -> [ref EXCEPT ![stemId].sustain = value]
       [] param = "release" -> [ref EXCEPT ![stemId].release = value]
       [] OTHER -> ref

(* updateStemParam(stemId, param, value) *)
UpdateStemParam(stemId, param, value) ==
  /\ stemStates' = [stemStates EXCEPT ![stemId][param] = value]
  /\ stemPlayersRef' = ApplyStemParam(stemId, param, value)
  /\ UNCHANGED <<isPlaying, isLoading, loadState, loadedCount, now, clock>>
  /\ UNCHANGED <<cardVars, lifeVars, intervalRef>>

(* the Mute button: updateStemParam(stem.id, 'muted', !state.muted) *)
ToggleMute(s) ==
  /\ UpdateStemParam(s, "muted", ~stemStates[s].muted)
  /\ hist' = Record(<<"muted", s>>)
  /\ UNCHANGED paramOps

(* the Solo button: updateStemParam(stem.id, 'solo', !state.solo) *)
ToggleSolo(s) ==
  /\ UpdateStemParam(s, "solo", ~stemStates[s].solo)
  /\ hist' = Record(<<"solo", s>>)
  /\ UNCHANGED paramOps

(* ------------------------------ transport ------------------------------ *)
(* Player.start throws when the buffer is not loaded *)
StartThrows(s) == loadState[s] # "loaded"

(* the first stem, in iteration order, whose start throws *)
FirstThrowing ==
  IF \E s \in Stems : StartThrows(s)
  THEN CHOOSE s \in Stems :
         StartThrows(s) /\ \A t \in Stems : StartThrows(t) => s <= t
  ELSE NumStems + 1

(* the time argument of stem.player.start for stem s, t being Tone.now() *)
StartArg(s, t) == t

(* the body of the forEach of the play branch for one stem *)
StartStem(stem, s, t) ==
  [stem EXCEPT !.state = "started", !.startTime = StartArg(s, t),
               !.mute = SoloMute(stemStates, s)]

(* togglePlay of the multi-stem player *)
TogglePlay ==
  /\ hist' = Record(<<"play", 0>>)
  /\ IF isLoading
     THEN UNCHANGED <<isPlaying, stemPlayersRef, now, intervalRef>>
     ELSE IF isPlaying
     THEN /\ stemPlayersRef' =
               [s \in Stems |-> [stemPlayersRef[s] EXCEPT !.state = "stopped"]]
          /\ intervalRef' = [intervalRef EXCEPT
                               !.session = ClearInterval(intervalRef.session)]
          /\ isPlaying' = FALSE
          /\ UNCHANGED now
     ELSE LET t == clock
              k == FirstThrowing
          IN  /\ k > NumStems => CanSetInterval(intervalRef.session)
              /\ stemPlayersRef' =
                   [s \in Stems |->
                      IF s < k THEN StartStem(stemPlayersRef[s], s, t)
                      ELSE stemPlayersRef[s]]
              /\ isPlaying' = (k > NumStems)
              /\ now' = IF k > NumStems THEN t ELSE now
              /\ intervalRef' =
                   IF k > NumStems
                   THEN [intervalRef EXCEPT
                           !.session = SetInterval(intervalRef.session)]
                   ELSE intervalRef
  /\ UNCHANGED <<isLoading, stemStates, loadState, loadedCount, clock,
                 paramOps>>
  /\ UNCHANGED <<cardVars, lifeVars>>

(* --------------------------- parameter inputs -------------------------- *)
(* values a range input can deliver: the ends of its min..max *)
SliderParams ==
  {"volume", "lowGain", "midGain", "highGain", "reverbMix", "delayTime",
   "delayFeedback", "delayMix", "distortionAmount", "attack", "decay",
   "sustain", "release"}

SliderValues(param) ==
  CASE param = "volume" -> {-60, 12}
    [] param \in {"lowGain", "midGain", "highGain"} -> {-20, 20}
    [] param \in {"reverbMix", "delayMix", "delayTime", "distortionAmount",
                  "sustain"} -> {0, 100}
    [] param = "delayFeedback" -> {0, 95}
    [] param \in {"attack", "decay"} -> {0, 200}
    [] param = "release" -> {0, 500}

(* the parameter panel of an effect is rendered only while it is enabled *)
SliderShown(st, param) ==
  CASE param = "reverbMix" -> st.reverbEnabled
    [] param \in {"delayTime", "delayFeedback", "delayMix"} -> st.delayEnabled
    [] param = "distortionAmount" -> st.distortionEnabled
    [] param \in {"attack", "decay", "sustain", "release"} -> st.envelopeEnabled
    [] OTHER -> TRUE

(* a range input: updateStemParam(stem.id, param, parseFloat(value)) *)
MoveSlider(s, param, value) ==
  /\ paramOps < MaxParamOps
  /\ SliderShown(stemStates[s], param)
  /\ UpdateStemParam(s, param, value)
  /\ paramOps' = paramOps + 1
  /\ UNCHANGED hist

(* what the pitch number input can deliver: parseInt of any typed number,  *)
(* its min and max attributes do not confine typed text                    *)
PitchTyped == {-24, -12, 12, 24}

(* the pitch input: updateStemParam(stem.id, 'pitchShift', parseInt(value)) *)
TypePitch(s, value) ==
  /\ paramOps < MaxParamOps
  /\ UpdateStemParam(s, "pitchShift", value)
  /\ paramOps' = paramOps + 1
  /\ UNCHANGED hist

EffectToggles ==
  {"reverbEnabled", "delayEnabled", "distortionEnabled", "envelopeEnabled"}

(* an effect button: updateStemParam(stem.id, param, !state[param]) *)
ToggleStemEffect(s, param) ==
  /\ paramOps < MaxParamOps
  /\ UpdateStemParam(s, param, ~stemStates[s][param])
  /\ paramOps' = paramOps + 1
  /\ UNCHANGED hist

ParamNext ==
  \/ \E s \in Stems, param \in SliderParams :
       \E value \in SliderValues(param) : MoveSlider(s, param, value)
  \/ \E s \in Stems, value \in PitchTyped : TypePitch(s, value)
  \/ \E s \in Stems, param \in EffectToggles : ToggleStemEffect(s, param)

StemNext ==
  \/ \E s \in Stems : OnLoad(s)
  \/ \E s \in Stems : OnError(s)
  \/ Tick
  \/ TogglePlay
  \/ \E s \in Stems : ToggleMute(s)
  \/ \E s \in Stems : ToggleSolo(s)


(***************************************************************************)
(* Single-track player (TrackCard)                                         *)
(***************************************************************************)
MaxPending == 2
TrackDuration == 4000

Effects == {"reverb", "delay", "distortion", "chorus", "envelope"}

(* the order in which the rebuild effect visits the optional effects *)
EffectOrder == <<"reverb", "delay", "distortion", "chorus", "envelope">>

MimeTypes == {"audio/mpeg", "audio/wav", "audio/webm"}

(* platforms: no recording codec at all, webm only, wav too, all three *)
Platforms ==
  {{}, {"audio/webm"}, {"audio/wav", "audio/webm"}, MimeTypes}

Rates == {25, 50, 100, 200}
Pitches == {-12, 0, 12}

IdleDownload ==
  [pc |-> "idle", wasLooping |-> FALSE, wasPlaying |-> FALSE,
   mimeType |-> "none", fileExtension |-> "none", format |-> "none",
   preLoop |-> FALSE, preStarted |-> FALSE, oneShot |-> FALSE,
   userStopped |-> FALSE, rate |-> 0, waitMs |-> 0, elapsed |-> 0]

(* ------------------------- pitch compensation -------------------------- *)
(* Math.log2 of a playback rate given in hundredths *)
RECURSIVE Log2(_)
Log2(r) ==
  IF r = 100 THEN 0
  ELSE IF r > 100 THEN 1 + Log2(r \div 2)
  ELSE Log2(r * 2) - 1

(* mutant: compensation with the wrong sign *)
PitchCompensationUp(rate) == 12 * Log2(rate)

(* const pitchCompensation = -12 * Math.log2(playbackRate) *)
PitchCompensation(rate) == (-12) * Log2(rate)

(* const totalPitchShift = pitchShift + pitchCompensation *)
TotalPitchShift(pitch, rate) == pitch + PitchCompensation(rate)

(* -------------------------- mastering presets -------------------------- *)
Presets == {"warm", "bright", "punchy", "airy", "balanced"}

Bands == {"low", "mid", "high"}

(* const presetValues, in dB *)
PresetValues ==
  [warm     |-> [low |-> 3, mid |-> -1, high |-> -2],
   bright   |-> [low |-> -2, mid |-> 1, high |-> 4],
   punchy   |-> [low |-> 4, mid |-> 2, high |-> 1],
   airy     |-> [low |-> -1, mid |-> -2, high |-> 5],
   balanced |-> [low |-> 0, mid |-> 0, high |-> 0]]

(* gains are kept in 1/60 dB, so that a total divided by a count of one to *)
(* five presets is exact                                                   *)
GainUnit == 60

(* totalLow, totalMid, totalHigh after the forEach over the selection *)
RECURSIVE Total(_, _)
Total(presets, band) ==
  IF presets = <<>> THEN 0
  ELSE PresetValues[Head(presets)][band] + Total(Tail(presets), band)

(* mutant: the totals are applied without dividing by the count *)
MasteringGainsSummed(presets) ==
  [b \in Bands |-> Total(presets, b) * GainUnit]

(* the gains the mastering effect writes to the EQ for a selection *)
MasteringGains(presets) ==
  IF Len(presets) = 0 THEN [b \in Bands |-> 0]
  ELSE [b \in Bands |-> (Total(presets, b) * GainUnit) \div Len(presets)]

(* ------------------------------ the chain ------------------------------ *)
(* the nodes the rebuild effect visits, in order, for a set of enabled     *)
(* effects: the mastering EQ, then each enabled effect                     *)
ChainPath(enabled) ==
  <<"eq3">> \o SelectSeq(EffectOrder, LAMBDA e : e \in enabled)

(* the node called lastNode after the loop of the rebuild effect *)
LastNode(enabled) == ChainPath(enabled)[Len(ChainPath(enabled))]

(* mutant: the enabled effects fanned out in parallel with a dry path *)
RebuildParallel(conn, enabled) ==
  LET kept == {e \in conn : e[1] \notin ({"eq3"} \cup Effects)}
  IN  kept
      \cup {<<"eq3", e>> : e \in enabled}
      \cup {<<e, "destination">> : e \in enabled}
      \cup {<<"eq3", "recorder">>, <<"eq3", "destination">>}

(* mutant: the new edges are added, nothing is disconnected first *)
RebuildAdding(conn, enabled) ==
  LET path == ChainPath(enabled)
  IN  conn
      \cup {<<path[i], path[i + 1]>> : i \in 1..(Len(path) - 1)}
      \cup {<<LastNode(enabled), "recorder">>,
            <<LastNode(enabled), "destination">>}

(* mutant: the edge to the recorder of a capture is spared *)
RebuildSparingCapture(conn, enabled) ==
  LET path == ChainPath(enabled)
      kept == {e \in conn : \/ e[1] \notin ({"eq3"} \cup Effects)
                            \/ e[2] = "formatRecorder"}
  IN  kept
      \cup {<<path[i], path[i + 1]>> : i \in 1..(Len(path) - 1)}
      \cup {<<LastNode(enabled), "recorder">>,
            <<LastNode(enabled), "destination">>}

(* the rebuild effect: disconnect the EQ and every effect, reconnect *)
Rebuild(conn, enabled) ==
  LET path == ChainPath(enabled)
      kept == {e \in conn : e[1] \notin ({"eq3"} \cup Effects)}
  IN  kept
      \cup {<<path[i], path[i + 1]>> : i \in 1..(Len(path) - 1)}
      \cup {<<LastNode(enabled), "recorder">>,
            <<LastNode(enabled), "destination">>}

(* the edges initAudio makes *)
InitAudioConnections ==
  {<<"pitchShifter", "eq3">>, <<"eq3", "destination">>,
   <<"player", "pitchShifter">>}

(* the edges initializeStems makes for one stem *)
StemConnections ==
  {<<"player", "pitchShift">>, <<"pitchShift", "volume">>,
   <<"volume", "panner">>, <<"panner", "eq">>,
   <<"eq", "reverb">>, <<"eq", "delay">>, <<"eq", "distortion">>,
   <<"eq", "envelope">>,
   <<"reverb", "destination">>, <<"delay", "destination">>,
   <<"distortion", "destination">>, <<"envelope", "destination">>,
   <<"eq", "destination">>}

StemEffects == {"reverb", "delay", "distortion", "envelope"}

(* what a step shows the user: an alert text and a file offered *)
NoOutput == [alert |-> "none", file |-> "none"]
Alert(msg) == [alert |-> msg, file |-> "none"]
File(name) == [alert |-> "none", file |-> name]

FailedToPlay == "Failed to play audio. Check console for details."
NotReady == "Audio not ready for download"
FailedDownload == "Failed to download transformed audio"

(* the effects that have a wet level *)
WetEffects == {"reverb", "delay", "distortion", "chorus"}

(* useState of reverbMix, delayMix, distortionMix, chorusMix *)
InitialMix ==
  [reverb |-> 35, delay |-> 25, distortion |-> 20, chorus |-> 23]

(* the wet option the effect nodes are constructed with in initAudio *)
ConstructedUnits ==
  [reverb |-> 35, delay |-> 25, distortion |-> 20, chorus |-> 23]

(* the four parameter effects: each writes effect.wet.value = its mix *)
MixEffects(units, mix) == [e \in WetEffects |-> mix[e]]

(* no seek since the last other gesture on the transport *)
NoSeek == [target |-> 0, wasPlaying |-> FALSE]

(* --------------------------- initialisation ---------------------------- *)
(* the state after the mount effects have run: initAudio, then the         *)
(* rate/pitch, loop and rebuild effects with the initial React state       *)
CardInit ==
  /\ card = [isPlaying |-> FALSE, duration |-> 0, playbackRate |-> 100,
             pitchShift |-> 0, loopEnabled |-> TRUE, isRecording |-> FALSE,
             downloadFormat |-> "mp3", enabled |-> {},
             masteringPresets |-> <<>>, currentTime |-> 0,
             mix |-> InitialMix]
  /\ player = [state |-> "stopped", loop |-> TRUE, playbackRate |-> 100,
               loaded |-> FALSE]
  /\ pitchShifter = [pitch |-> TotalPitchShift(0, 100)]
  /\ connections = Rebuild(InitAudioConnections, {})
  /\ formatRecorder = "none"
  /\ pendingStops = 0
  /\ dl = IdleDownload
  /\ supported \in Platforms
  /\ outcome = NoOutput
  /\ eq3 = MasteringGains(<<>>)
  /\ seek = NoSeek
  /\ effectUnits = MixEffects(ConstructedUnits, InitialMix)

(* --------------------------- capture timing ---------------------------- *)
(* the settle margin added to the wait, in ms *)
PostRoll == 500

(* const recordDuration = (duration / playbackRate) * 1000, in ms *)
RecordDuration(duration, rate) == (duration * 100) \div rate

(* mutant: the wait without the settle margin *)
CaptureWaitBare(duration, rate) == RecordDuration(duration, rate)

(* the delay of the setTimeout: recordDuration + 500 *)
CaptureWait(duration, rate) == RecordDuration(duration, rate) + PostRoll

(* ------------------------- engine primitives --------------------------- *)

(* Player.stop(): a started player ends its source, which is reported by   *)
(* one later onstop notification; stopping a stopped player does nothing   *)
StopPlayer(p) == [p EXCEPT !.state = "stopped"]
StopsAdded(p) == IF p.state = "started" THEN 1 ELSE 0

(* Player.start(): a started player is restarted, its old source ends *)
StartPlayer(p) == [p EXCEPT !.state = "started"]

(* the Player onload callback: setDuration(buffer.duration) *)
CardOnLoad ==
  /\ ~player.loaded
  /\ player' = [player EXCEPT !.loaded = TRUE]
  /\ card' = [card EXCEPT !.duration = TrackDuration]
  /\ outcome' = NoOutput
  /\ UNCHANGED <<pitchShifter, connections, formatRecorder, pendingStops,
                 dl, supported, eq3, seek>>
  /\ UNCHANGED <<stemVars, lifeVars, effectUnits, intervalRef>>

(* the source reaches the end of the buffer with loop off; the untouched  *)
(* one-shot playthrough of a capture takes duration / playbackRate        *)
NaturalEnd ==
  /\ player.state = "started" /\ ~player.loop
  /\ (dl.pc = "waiting" /\ dl.oneShot)
       => dl.elapsed >= RecordDuration(card.duration, dl.rate)
  /\ pendingStops < MaxPending
  /\ player' = StopPlayer(player)
  /\ pendingStops' = pendingStops + 1
  /\ outcome' = NoOutput
  /\ seek' = NoSeek
  /\ UNCHANGED <<card, pitchShifter, connections, formatRecorder, dl,
                 supported, eq3>>
  /\ UNCHANGED <<stemVars, lifeVars, effectUnits, intervalRef>>

(* playerRef.current.onstop: setIsPlaying(false); setCurrentTime(0) *)
OnStop ==
  /\ pendingStops > 0
  /\ pendingStops' = pendingStops - 1
  /\ card' = [card EXCEPT !.isPlaying = FALSE, !.currentTime = 0]
  /\ outcome' = NoOutput
  /\ UNCHANGED <<player, pitchShifter, connections, formatRecorder, dl,
                 supported, eq3, seek>>
  /\ UNCHANGED <<stemVars, lifeVars, effectUnits, intervalRef>>

(* a user gesture on the transport during a capture: the capture is no     *)
(* longer the untouched one-shot playthrough                               *)
Touched(d) == [d EXCEPT !.oneShot = FALSE]

(* togglePlay of the single-track player *)
CardTogglePlay ==
  /\ pendingStops + StopsAdded(player) <= MaxPending
  /\ IF card.isPlaying
     THEN /\ player' = StopPlayer(player)
          /\ pendingStops' = pendingStops + StopsAdded(player)
          /\ intervalRef' = [intervalRef EXCEPT
                               !.card = ClearInterval(intervalRef.card)]
          /\ card' = [card EXCEPT !.isPlaying = FALSE]
          /\ outcome' = NoOutput
          /\ dl' = IF dl.pc = "waiting"
                   THEN [dl EXCEPT !.oneShot = FALSE, !.userStopped = TRUE]
                   ELSE dl
     ELSE IF ~player.loaded
     THEN /\ card' = [card EXCEPT !.isPlaying = FALSE]
          /\ outcome' = Alert(FailedToPlay)
          /\ UNCHANGED <<player, pendingStops, dl, intervalRef>>
     ELSE /\ CanSetInterval(intervalRef.card)
          /\ player' = StartPlayer(player)
          /\ pendingStops' = pendingStops + StopsAdded(player)
          /\ card' = [card EXCEPT !.isPlaying = TRUE]
          /\ outcome' = NoOutput
          /\ dl' = Touched(dl)
          /\ intervalRef' = [intervalRef EXCEPT
                               !.card = SetInterval(intervalRef.card)]
  /\ seek' = NoSeek
  /\ UNCHANGED <<pitchShifter, connections, formatRecorder, supported, eq3>>
  /\ UNCHANGED <<stemVars, lifeVars, effectUnits>>

(* the places of the progress bar a click can ask for, in ms *)
SeekTargets == {0, TrackDuration \div 2, TrackDuration}

(* the sources handleSeek ends: the one stopped before the restart when   *)
(* playing, else the one restarted, if any, and the one started and       *)
(* stopped at once                                                        *)
SeekStops(p, wasPlaying) ==
  IF wasPlaying THEN StopsAdded(p) ELSE StopsAdded(p) + 1

(* handleSeek: a click on the progress bar at newTime *)
HandleSeek(newTime) ==
  LET wasPlaying == card.isPlaying
      restarted  == StartPlayer(IF wasPlaying THEN StopPlayer(player)
                                ELSE player)
  IN  /\ card.duration # 0
      /\ pendingStops + SeekStops(player, wasPlaying) <= MaxPending
      /\ player' = IF wasPlaying THEN restarted ELSE StopPlayer(restarted)
      /\ pendingStops' = pendingStops + SeekStops(player, wasPlaying)
      /\ card' = [card EXCEPT !.currentTime = newTime,
                              !.isPlaying = wasPlaying]
      /\ seek' = [target |-> newTime, wasPlaying |-> wasPlaying]
      /\ dl' = Touched(dl)
      /\ outcome' = NoOutput
      /\ UNCHANGED <<pitchShifter, connections, formatRecorder, supported,
                     eq3>>
      /\ UNCHANGED <<stemVars, lifeVars, effectUnits, intervalRef>>

(* the loop button and the loop effect *)
ToggleLoop ==
  /\ card' = [card EXCEPT !.loopEnabled = ~card.loopEnabled]
  /\ player' = [player EXCEPT !.loop = ~card.loopEnabled]
  /\ dl' = Touched(dl)
  /\ outcome' = NoOutput
  /\ UNCHANGED <<pitchShifter, connections, formatRecorder, pendingStops,
                 supported, eq3, seek>>
  /\ UNCHANGED <<stemVars, lifeVars, effectUnits, intervalRef>>

(* the speed slider and the rate/pitch effect *)
SetPlaybackRate(r) ==
  /\ card' = [card EXCEPT !.playbackRate = r]
  /\ player' = [player EXCEPT !.playbackRate = r]
  /\ pitchShifter' = [pitch |-> TotalPitchShift(card.pitchShift, r)]
  /\ dl' = IF r = card.playbackRate THEN dl ELSE Touched(dl)
  /\ outcome' = NoOutput
  /\ UNCHANGED <<connections, formatRecorder, pendingStops, supported, eq3, seek>>
  /\ UNCHANGED <<stemVars, lifeVars, effectUnits, intervalRef>>

(* the pitch slider and the rate/pitch effect *)
SetPitchShift(p) ==
  /\ card' = [card EXCEPT !.pitchShift = p]
  /\ player' = [player EXCEPT !.playbackRate = card.playbackRate]
  /\ pitchShifter' = [pitch |-> TotalPitchShift(p, card.playbackRate)]
  /\ outcome' = NoOutput
  /\ UNCHANGED <<connections, formatRecorder, pendingStops, dl, supported,
                 eq3, seek>>
  /\ UNCHANGED <<stemVars, lifeVars, effectUnits, intervalRef>>

(* an effect button and the rebuild effect *)
ToggleEffect(e) ==
  LET enabled == IF e \in card.enabled THEN card.enabled \ {e}
                 ELSE card.enabled \cup {e}
  IN  /\ card' = [card EXCEPT !.enabled = enabled]
      /\ connections' = Rebuild(connections, enabled)
      /\ outcome' = NoOutput
      /\ UNCHANGED <<player, pitchShifter, formatRecorder, pendingStops, dl,
                     supported, eq3, seek>>
      /\ UNCHANGED <<stemVars, lifeVars, effectUnits, intervalRef>>

(* the values a mix slider of the effects panel is moved to *)
MixValues == {0, 50, 100}

(* a mix slider of an effect and the parameter effect of that effect *)
SetMix(e, v) ==
  /\ e \in card.enabled
  /\ card' = [card EXCEPT !.mix[e] = v]
  /\ effectUnits' = [effectUnits EXCEPT ![e] = v]
  /\ outcome' = NoOutput
  /\ UNCHANGED <<player, pitchShifter, connections, formatRecorder,
                 pendingStops, dl, supported, eq3, seek>>
  /\ UNCHANGED <<stemVars, lifeVars, intervalRef>>

(* the "clear all" button of the effects: the rebuild effect runs only     *)
(* when a toggle changed                                                   *)
ClearEffects ==
  /\ card' = [card EXCEPT !.enabled = {}]
  /\ connections' = IF card.enabled = {} THEN connections
                    ELSE Rebuild(connections, {})
  /\ outcome' = NoOutput
  /\ UNCHANGED <<player, pitchShifter, formatRecorder, pendingStops, dl,
                 supported, eq3, seek>>
  /\ UNCHANGED <<stemVars, lifeVars, effectUnits, intervalRef>>

(* mutant: the updater of a preset button appends without looking *)
ToggledSelectionAppend(prev, p) == Append(prev, p)

(* the updater a preset button hands to setMasteringPresets:               *)
(* prev.includes(p) ? prev.filter(q => q !== p) : [...prev, p]             *)
ToggledSelection(prev, p) ==
  IF \E i \in 1..Len(prev) : prev[i] = p
  THEN SelectSeq(prev, LAMBDA q : q # p)
  ELSE Append(prev, p)

(* a preset button and the mastering effect: the preset joins or leaves    *)
(* the selection, the EQ gets the gains of the new selection               *)
TogglePreset(p) ==
  LET next == ToggledSelection(card.masteringPresets, p)
  IN  /\ card' = [card EXCEPT !.masteringPresets = next]
      /\ eq3' = MasteringGains(next)
      /\ outcome' = NoOutput
      /\ UNCHANGED <<player, pitchShifter, connections, formatRecorder,
                     pendingStops, dl, supported, seek>>
      /\ UNCHANGED <<stemVars, lifeVars, effectUnits, intervalRef>>

(* the "clear all" button of the mastering presets, shown while a preset   *)
(* is selected                                                             *)
ClearPresets ==
  /\ Len(card.masteringPresets) > 0
  /\ card' = [card EXCEPT !.masteringPresets = <<>>]
  /\ eq3' = MasteringGains(<<>>)
  /\ outcome' = NoOutput
  /\ UNCHANGED <<player, pitchShifter, connections, formatRecorder,
                 pendingStops, dl, supported, seek>>
  /\ UNCHANGED <<stemVars, lifeVars, effectUnits, intervalRef>>

(* track.fileUrl changes on a mounted card: the cleanup of the init effect *)
(* disposes every node, initAudio constructs new ones. No other effect    *)
(* runs, their dependencies are unchanged, and the React state is kept.   *)
(* A disposed source calls no onstop.                                     *)
TrackChange ==
  /\ player' = [state |-> "stopped", loop |-> TRUE,
                playbackRate |-> card.playbackRate, loaded |-> FALSE]
  /\ pitchShifter' = [pitch |-> 0]
  /\ eq3' = [b \in Bands |-> 0]
  /\ effectUnits' = ConstructedUnits
  /\ connections' = InitAudioConnections
  /\ pendingStops' = 0
  /\ intervalRef' = [intervalRef EXCEPT !.card = ClearInterval(intervalRef.card)]
  /\ outcome' = NoOutput
  /\ UNCHANGED <<card, formatRecorder, dl, supported, seek>>
  /\ UNCHANGED <<stemVars, lifeVars>>

(* the format menu, closed while a recording runs *)
SetDownloadFormat(f) ==
  /\ ~card.isRecording
  /\ card' = [card EXCEPT !.downloadFormat = f]
  /\ outcome' = NoOutput
  /\ UNCHANGED <<player, pitchShifter, connections, formatRecorder,
                 pendingStops, dl, supported, eq3, seek>>
  /\ UNCHANGED <<stemVars, lifeVars, effectUnits, intervalRef>>

(* ------------------------- downloadTransformed ------------------------- *)
(* the MIME type and file extension chosen for a requested format *)
ChooseFormat(downloadFormat, sup) ==
  LET webm == [mimeType |-> "audio/webm", fileExtension |-> "webm"]
      wav  == [mimeType |-> "audio/wav", fileExtension |-> "wav"]
      mp3  == [mimeType |-> "audio/mpeg", fileExtension |-> "mp3"]
  IN  IF downloadFormat = "mp3"
      THEN (IF "audio/mpeg" \in sup THEN mp3
            ELSE (IF downloadFormat = "wav" THEN wav ELSE webm))
      ELSE IF downloadFormat = "wav"
      THEN (IF "audio/wav" \in sup THEN wav ELSE webm)
      ELSE webm

(* mutant: the readiness of the source is not looked at *)
SourceNeverUnready(c) == FALSE

(* !playerRef.current || !recorderRef.current || !duration: the refs are  *)
(* set at mount, the duration is 0 until the buffer has loaded            *)
SourceNotReady(c) == c.duration = 0

(* const hasEffects = ... *)
HasEffects(c) ==
  \/ c.enabled # {} \/ Len(c.masteringPresets) > 0
  \/ c.playbackRate # 100 \/ c.pitchShift # 0

(* const lastEffectNode = ... *)
LastEffectNode(enabled) ==
  IF "envelope" \in enabled THEN "envelope"
  ELSE IF "chorus" \in enabled THEN "chorus"
  ELSE IF "distortion" \in enabled THEN "distortion"
  ELSE IF "delay" \in enabled THEN "delay"
  ELSE IF "reverb" \in enabled THEN "reverb"
  ELSE "eq3"

(* the player after "Stop playback and disable loop" *)
PreparedPlayer(p, wasPlaying) ==
  [(IF wasPlaying THEN StopPlayer(p) ELSE p) EXCEPT !.loop = FALSE]

(* downloadTransformed up to its wait; new Tone.Recorder({ mimeType })     *)
(* throws for a MIME type the platform cannot record                       *)
DownloadTransformed ==
  /\ dl.pc = "idle"
  /\ pendingStops + StopsAdded(player) <= MaxPending
  /\ IF SourceNotReady(card)
     THEN /\ outcome' = Alert(NotReady)
          /\ UNCHANGED <<card, player, connections, formatRecorder,
                         pendingStops, dl>>
     ELSE IF ~HasEffects(card)
     THEN /\ outcome' = File("original")
          /\ UNCHANGED <<card, player, connections, formatRecorder,
                         pendingStops, dl>>
     ELSE
       LET wasLooping == card.loopEnabled
           wasPlaying == card.isPlaying
           prepared   == PreparedPlayer(player, wasPlaying)
           stops1     == IF wasPlaying THEN StopsAdded(player) ELSE 0
           fmt        == ChooseFormat(card.downloadFormat, supported)
       IN  IF fmt.mimeType \notin supported
           THEN /\ player' = prepared
                /\ pendingStops' = pendingStops + stops1
                /\ outcome' = Alert(FailedDownload)
                /\ UNCHANGED <<card, connections, formatRecorder, dl>>
           ELSE /\ formatRecorder' = "recording"
                /\ connections' = connections \cup
                     {<<LastEffectNode(card.enabled), "formatRecorder">>}
                /\ player' = StartPlayer(prepared)
                /\ pendingStops' = pendingStops + stops1 + StopsAdded(prepared)
                /\ card' = [card EXCEPT !.isRecording = TRUE]
                /\ dl' = [pc |-> "waiting", wasLooping |-> wasLooping,
                          wasPlaying |-> wasPlaying,
                          mimeType |-> fmt.mimeType,
                          fileExtension |-> fmt.fileExtension,
                          format |-> card.downloadFormat,
                          preLoop |-> player.loop,
                          preStarted |-> (player.state = "started"),
                          oneShot |-> TRUE, userStopped |-> FALSE,
                          rate |-> card.playbackRate,
                          waitMs |-> CaptureWait(card.duration,
                                                 card.playbackRate),
                          elapsed |-> 0]
                /\ outcome' = NoOutput
  /\ seek' = NoSeek
  /\ UNCHANGED <<pitchShifter, supported, eq3>>
  /\ UNCHANGED <<stemVars, lifeVars, effectUnits, intervalRef>>

(* time passes during the wait, from one event to the next: the end of    *)
(* the one-shot playthrough, then the timer; an untouched playthrough has *)
(* ended when its time is up                                              *)
Elapse ==
  LET playEnd == RecordDuration(card.duration, dl.rate)
  IN  /\ dl.pc = "waiting"
      /\ dl.elapsed < dl.waitMs
      /\ (dl.elapsed >= playEnd /\ dl.oneShot) => player.state = "stopped"
      /\ dl' = [dl EXCEPT !.elapsed = IF dl.elapsed < playEnd THEN playEnd
                                      ELSE dl.waitMs]
      /\ outcome' = NoOutput
      /\ UNCHANGED <<card, player, pitchShifter, connections, formatRecorder,
                     pendingStops, supported, eq3, seek>>
      /\ UNCHANGED <<stemVars, lifeVars, effectUnits, intervalRef>>

(* the timer of the wait has fired *)
WaitOver == dl.pc = "waiting" /\ dl.elapsed = dl.waitMs

(* the player after "Restore original state" *)
RestoredPlayer(p, wasLooping, wasPlaying) ==
  [(IF ~wasPlaying THEN StopPlayer(p) ELSE p) EXCEPT !.loop = wasLooping]

(* downloadTransformed after its wait: stop and dispose the recorder,      *)
(* offer the file, restore                                                 *)
DownloadFinish ==
  /\ WaitOver
  /\ pendingStops + StopsAdded(player) <= MaxPending
  /\ formatRecorder' = "disposed"
  /\ outcome' = File(dl.fileExtension)
  /\ player' = RestoredPlayer(player, dl.wasLooping, dl.wasPlaying)
  /\ pendingStops' = pendingStops +
                       (IF ~dl.wasPlaying THEN StopsAdded(player) ELSE 0)
  /\ card' = [card EXCEPT !.isRecording = FALSE]
  /\ dl' = IdleDownload
  /\ UNCHANGED <<pitchShifter, connections, supported, eq3, seek>>
  /\ UNCHANGED <<stemVars, lifeVars, effectUnits, intervalRef>>

(* mutant: a catch block that leaves isRecording set *)
DownloadFailStuck ==
  /\ WaitOver
  /\ outcome' = Alert(FailedDownload)
  /\ dl' = IdleDownload
  /\ UNCHANGED <<card, player, pitchShifter, connections, formatRecorder,
                 pendingStops, supported, eq3, seek>>
  /\ UNCHANGED <<stemVars, lifeVars, effectUnits, intervalRef>>

(* downloadTransformed after its wait when formatRecorder.stop() rejects:  *)
(* the catch block                                                         *)
DownloadFail ==
  /\ WaitOver
  /\ outcome' = Alert(FailedDownload)
  /\ card' = [card EXCEPT !.isRecording = FALSE]
  /\ dl' = IdleDownload
  /\ UNCHANGED <<player, pitchShifter, connections, formatRecorder,
                 pendingStops, supported, eq3, seek>>
  /\ UNCHANGED <<stemVars, lifeVars, effectUnits, intervalRef>>

(* transport, recording, loop, format and speed of the single-track player *)
CardNext ==
  \/ CardOnLoad
  \/ NaturalEnd
  \/ OnStop
  \/ CardTogglePlay
  \/ ToggleLoop
  \/ \E r \in {100, 200} : SetPlaybackRate(r)
  \/ \E f \in {"mp3", "wav", "webm"} : SetDownloadFormat(f)
  \/ TogglePreset("warm")
  \/ DownloadTransformed
  \/ Elapse
  \/ DownloadFinish
  \/ DownloadFail

(* a capture and the transport of the single-track player *)
RecordNext ==
  \/ CardOnLoad
  \/ NaturalEnd
  \/ OnStop
  \/ CardTogglePlay
  \/ SetPlaybackRate(200)
  \/ DownloadTransformed
  \/ Elapse
  \/ DownloadFinish
  \/ DownloadFail

(* the mastering presets of the single-track player *)
MasterNext ==
  \/ CardOnLoad
  \/ OnStop
  \/ CardTogglePlay
  \/ \E p \in Presets : TogglePreset(p)
  \/ ClearPresets

(* the transport of the single-track player *)
SeekNext ==
  \/ CardOnLoad
  \/ NaturalEnd
  \/ OnStop
  \/ CardTogglePlay
  \/ ToggleLoop
  \/ \E t \in SeekTargets : HandleSeek(t)

(* effect buttons and mix sliders of both players *)
FxNext ==
  \/ \E s \in Stems, param \in EffectToggles : ToggleStemEffect(s, param)
  \/ \E s \in Stems, param \in {"reverbMix", "delayMix"} :
       \E value \in SliderValues(param) : MoveSlider(s, param, value)
  \/ \E e \in {"reverb", "delay"} : ToggleEffect(e)
  \/ \E e \in {"reverb", "delay"}, v \in MixValues : SetMix(e, v)

(* speed and pitch of the single-track player *)
PitchNext ==
  \/ CardOnLoad
  \/ NaturalEnd
  \/ OnStop
  \/ CardTogglePlay
  \/ ToggleLoop
  \/ \E r \in Rates : SetPlaybackRate(r)
  \/ \E p \in Pitches : SetPitchShift(p)

(* the effect chain of the single-track player *)
ChainNext ==
  \/ CardOnLoad
  \/ NaturalEnd
  \/ OnStop
  \/ CardTogglePlay
  \/ \E e \in Effects : ToggleEffect(e)
  \/ ClearEffects
  \/ DownloadTransformed
  \/ Elapse
  \/ DownloadFinish
  \/ DownloadFail

(* a card that is handed another source *)
TrackNext ==
  \/ CardOnLoad
  \/ OnStop
  \/ CardTogglePlay
  \/ ToggleLoop
  \/ SetPlaybackRate(200)
  \/ \E e \in {"reverb", "delay"} : ToggleEffect(e)
  \/ \E v \in MixValues : SetMix("reverb", v)
  \/ TogglePreset("warm")
  \/ TrackChange

(* the multi-stem view mounted, initializeStems run to its end *)
LifeBuilt ==
  /\ life = [mounted |-> TRUE, pc |-> "built"]
  /\ stemNodes = [s \in Stems |-> [created |-> TRUE, disposed |-> 0]]

Init == StemInit /\ CardInit /\ LifeBuilt /\ TimersInit

(* the multi-stem player records nothing: one platform is enough *)
StemsInit == Init /\ supported = MimeTypes

Spec == StemsInit /\ [][StemNext]_vars

SpecParams == StemsInit /\ [][ParamNext]_vars

SpecCard == Init /\ [][CardNext]_vars

SpecPitch == Init /\ [][PitchNext]_vars

SpecChain == Init /\ [][ChainNext]_vars

SpecMaster == Init /\ [][MasterNext]_vars

SpecSeek == Init /\ [][SeekNext]_vars

SpecTrack == Init /\ [][TrackNext]_vars

SpecFx == StemsInit /\ [][FxNext]_vars

(* the engine ends a source that has played to its end and delivers its   *)
(* notifications, timers fire, and the promise of formatRecorder.stop()   *)
(* settles one way or the other                                           *)
SpecRecord ==
  /\ Init /\ [][RecordNext]_vars
  /\ WF_vars(NaturalEnd) /\ WF_vars(OnStop) /\ WF_vars(Elapse)
  /\ WF_vars(DownloadFinish \/ DownloadFail)

(* ---------------------- life cycle of the stem view -------------------- *)
(* the mount effect has called initializeStems, which awaits Tone.start(); *)
(* stemPlayersRef.current is still empty, stemPlayersRef and loadState     *)
(* hold the values the nodes get when they are created                     *)
LifeInit ==
  /\ StemInit /\ CardInit /\ TimersInit /\ supported = MimeTypes
  /\ life = [mounted |-> TRUE, pc |-> "awaiting"]
  /\ stemNodes = [s \in Stems |-> [created |-> FALSE, disposed |-> 0]]

(* dispose() of every node held in stemPlayersRef.current *)
DisposeHeld(nodes) ==
  [s \in Stems |->
     IF nodes[s].created
     THEN [nodes[s] EXCEPT !.disposed = nodes[s].disposed + 1]
     ELSE nodes[s]]

(* the cleanup of the mount effect *)
Cleanup(nodes) == DisposeHeld(nodes)

(* initializeStems after Tone.start() has settled: the nodes held are      *)
(* disposed, then the nodes of every stem are created and their loads      *)
(* begin; whether the view is still mounted is not looked at               *)
InitializeStems ==
  /\ life.pc = "awaiting"
  /\ life' = [life EXCEPT !.pc = "built"]
  /\ stemNodes' = [s \in Stems |-> [created |-> TRUE, disposed |-> 0]]
  /\ stemPlayersRef' = [s \in Stems |-> InitialStemPlayer]
  /\ stemStates' = [s \in Stems |-> InitialStemState]
  /\ loadState' = [s \in Stems |-> "loading"]
  /\ loadedCount' = 0
  /\ UNCHANGED <<isPlaying, isLoading, now, clock, paramOps, hist>>
  /\ UNCHANGED <<cardVars, intervalRef>>

(* the view leaves the page: the cleanup of the mount effect runs *)
Unmount ==
  /\ life.mounted
  /\ life' = [life EXCEPT !.mounted = FALSE]
  /\ stemNodes' = Cleanup(stemNodes)
  /\ intervalRef' =
       [intervalRef EXCEPT !.session = ClearInterval(intervalRef.session)]
  /\ UNCHANGED stemVars
  /\ UNCHANGED cardVars

(* callbacks and gestures need the nodes, gestures need the view *)
Built == life.pc = "built"
OnPage == life.mounted /\ Built

LifeNext ==
  \/ InitializeStems
  \/ Unmount
  \/ \E s \in Stems : Built /\ OnLoad(s)
  \/ \E s \in Stems : Built /\ OnError(s)
  \/ Tick
  \/ OnPage /\ TogglePlay
  \/ \E s \in Stems : OnPage /\ ToggleMute(s)
  \/ \E s \in Stems : OnPage /\ ToggleSolo(s)

SpecLife == LifeInit /\ [][LifeNext]_vars

(***************************************************************************)
(* Claims about the multi-stem player                                      *)
(***************************************************************************)
MuteA == <<"muted", 1>>
SoloB == <<"solo", 2>>

(* C1: in every reachable state each stem's engine mute flag is the         *)
(* negation of its audibility (solo AND NOT muted when some stem is solo'd, *)
(* NOT muted otherwise), whatever the order of the toggles was.             *)
C1_MuteFlagIsNegatedAudibility ==
  \A s \in Stems : stemPlayersRef[s].mute = ~Audibility(stemStates, s)

(* C2 as stated: mute A and solo B in either order gives {A: false,         *)
(* B: true}; un-soloing B afterwards gives {A: true, B: true}.              *)
C2_UnsoloMakesBothAudible ==
  /\ hist \in {<<MuteA, SoloB>>, <<SoloB, MuteA>>}
       => ~Audible(1) /\ Audible(2)
  /\ hist \in {<<MuteA, SoloB, SoloB>>, <<SoloB, MuteA, SoloB>>}
       => Audible(1) /\ Audible(2)

(* C2 amended: mute A and solo B in either order gives {A: false, B: true}; *)
(* un-soloing B afterwards gives {A: false, B: true}, A staying muted.      *)
C2_UnsoloKeepsMute ==
  /\ hist \in {<<MuteA, SoloB>>, <<SoloB, MuteA>>}
       => ~Audible(1) /\ Audible(2)
  /\ hist \in {<<MuteA, SoloB, SoloB>>, <<SoloB, MuteA, SoloB>>}
       => ~Audible(1) /\ Audible(2)

C2_Witness ==
  /\ hist = <<SoloB, MuteA, SoloB>>
  /\ stemStates[1].muted /\ ~stemStates[2].solo

(* C3: a step of togglePlay that takes the play branch starts every stem    *)
(* player, muted or not, with the one timestamp read before the loop.       *)
C3_EveryStemStartedAtOnce ==
  [][(TogglePlay /\ ~isLoading /\ ~isPlaying)
       => \A s \in Stems : /\ stemPlayersRef'[s].state = "started"
                           /\ stemPlayersRef'[s].startTime = clock]_vars

(* C4: a mute or solo toggle changes only mute flags and the stored         *)
(* mute/solo values: no player is started or stopped, isPlaying and the     *)
(* common start reference keep their values.                                *)
C4_ToggleKeepsTransport ==
  [][(\E s \in Stems : ToggleMute(s) \/ ToggleSolo(s))
       => /\ isPlaying' = isPlaying
          /\ now' = now
          /\ \A s \in Stems :
               /\ stemPlayersRef'[s] =
                    [stemPlayersRef[s] EXCEPT !.mute = stemPlayersRef'[s].mute]
               /\ stemStates'[s] =
                    [stemStates[s] EXCEPT !.muted = stemStates'[s].muted,
                                          !.solo = stemStates'[s].solo]
     ]_vars

C4_Witness ==
  /\ isPlaying
  /\ hist # Overflow /\ Len(hist) >= 2
  /\ hist[Len(hist)][1] \in {"muted", "solo"}
  /\ \A s \in Stems : stemPlayersRef[s].state = "started"
  /\ \E s \in Stems : stemPlayersRef[s].mute


(* C10: in every reachable state each applied parameter is inside its       *)
(* declared range (pitch -12..12, EQ gains -20..20, delay feedback 0..0.95, *)
(* wet mixes 0..1) and equals the stored value.                             *)
C10_AppliedInRangeAndStored ==
  \A s \in Stems :
    LET e  == stemPlayersRef[s]
        st == stemStates[s]
    IN  /\ e.pitch \in -12..12 /\ e.pitch = st.pitchShift
        /\ e.low \in -20..20 /\ e.low = st.lowGain
        /\ e.mid \in -20..20 /\ e.mid = st.midGain
        /\ e.high \in -20..20 /\ e.high = st.highGain
        /\ e.delayFeedback \in 0..95 /\ e.delayFeedback = st.delayFeedback
        /\ e.reverbWet \in 0..100
        /\ e.delayWet \in 0..100
        /\ e.distortionWet \in 0..100
        /\ st.reverbEnabled => e.reverbWet = st.reverbMix
        /\ st.delayEnabled => e.delayWet = st.delayMix


(***************************************************************************)
(* Claims about the single-track player                                    *)
(***************************************************************************)
RECURSIVE Pow2Rate(_)
(* 2^k as a playback rate in hundredths *)
Pow2Rate(k) ==
  IF k = 0 THEN 100
  ELSE IF k > 0 THEN 2 * Pow2Rate(k - 1)
  ELSE Pow2Rate(k + 1) \div 2

(* C5: in every reachable state the applied pitch p satisfies               *)
(* userPitch - p = 12 * log2(playbackRate): rate 2.0 with user pitch 0      *)
(* gives -12, rate 0.5 gives +12, rate 1.0 gives the user pitch.            *)
C5_PitchCompensated ==
  LET diff == card.pitchShift - pitchShifter.pitch
  IN  /\ diff % 12 = 0
      /\ Pow2Rate(diff \div 12) = card.playbackRate
      /\ card.playbackRate = 200 /\ card.pitchShift = 0
           => pitchShifter.pitch = -12
      /\ card.playbackRate = 50 /\ card.pitchShift = 0
           => pitchShifter.pitch = 12
      /\ card.playbackRate = 100 => pitchShifter.pitch = card.pitchShift

C5_Witness ==
  /\ card.playbackRate = 200 /\ card.pitchShift = 12
  /\ pitchShifter.pitch = 0
  /\ player.playbackRate = 200

(* C6: a step that ends a downloadTransformed call, by completing or by     *)
(* failing, leaves the loop flag and the transport state of the player as   *)
(* they were before the call.                                               *)
C6_DownloadRestoresState ==
  [][/\ (dl.pc = "waiting" /\ dl'.pc = "idle")
          => /\ player'.loop = dl.preLoop
             /\ (player'.state = "started") = dl.preStarted
     /\ (dl.pc = "idle" /\ outcome'.alert = FailedDownload)
          => /\ player'.loop = player.loop
             /\ player'.state = player.state]_vars

(* C7: a recording during which the user stopped playback ends as a failed  *)
(* download: an alert and no file, the recorder disposed, the loop flag and *)
(* the transport state as before the call.                                  *)
C7_StopCancelsRecording ==
  [][(dl.pc = "waiting" /\ dl.userStopped /\ dl'.pc = "idle")
       => /\ outcome'.alert = FailedDownload
          /\ outcome'.file = "none"
          /\ formatRecorder' = "disposed"
          /\ player'.loop = dl.preLoop
          /\ (player'.state = "started") = dl.preStarted]_vars

(* the position of an optional effect in the single-track chain *)
EffectRank ==
  [e \in Effects |->
     CASE e = "reverb" -> 1 [] e = "delay" -> 2 [] e = "distortion" -> 3
       [] e = "chorus" -> 4 [] e = "envelope" -> 5]

(* the enabled effect just before e, or the mastering EQ *)
ChainPrev(e) ==
  LET before == {f \in card.enabled : EffectRank[f] < EffectRank[e]}
  IN  IF before = {} THEN "eq3"
      ELSE CHOOSE f \in before : \A g \in before : EffectRank[g] <= EffectRank[f]

(* the last enabled effect, or the mastering EQ *)
ChainLast ==
  IF card.enabled = {} THEN "eq3"
  ELSE CHOOSE f \in card.enabled :
         \A g \in card.enabled : EffectRank[g] <= EffectRank[f]

(* the edges among mastering EQ, optional effects and output *)
ChainEdges ==
  {c \in connections : /\ c[1] \in {"eq3"} \cup Effects
                       /\ c[2] \in Effects \cup {"destination"}}

StemsFanOut ==
  /\ \A e \in StemEffects : /\ <<"eq", e>> \in StemConnections
                            /\ <<e, "destination">> \in StemConnections
  /\ <<"eq", "destination">> \in StemConnections
  /\ \A e, f \in StemEffects : <<e, f>> \notin StemConnections

PreferredMime(format, sup) ==
  IF format = "mp3"
  THEN (IF "audio/mpeg" \in sup THEN "audio/mpeg"
        ELSE IF "audio/wav" \in sup THEN "audio/wav" ELSE "audio/webm")
  ELSE IF format = "wav"
  THEN (IF "audio/wav" \in sup THEN "audio/wav" ELSE "audio/webm")
  ELSE "audio/webm"

ExtensionOf(mime) ==
  CASE mime = "audio/mpeg" -> "mp3" [] mime = "audio/wav" -> "wav"
    [] mime = "audio/webm" -> "webm"

(* C9: the recorder of a capture is created with the first supported MIME   *)
(* type of the preference chain of the requested format, and the file       *)
(* extension matches it.                                                    *)
C9_FormatPreferenceChain ==
  dl.pc = "waiting"
    => /\ dl.mimeType = PreferredMime(dl.format, supported)
       /\ dl.fileExtension = ExtensionOf(dl.mimeType)

(* C11: with a stem whose load failed, a step of togglePlay that takes the  *)
(* play branch starts every loaded stem with the common timestamp and       *)
(* makes the session Playing; the failed stem stays stopped.                *)
C11_PlaySurvivesFailedStem ==
  [][(/\ TogglePlay /\ ~isLoading /\ ~isPlaying
      /\ \E s \in Stems : loadState[s] = "failed")
       => /\ isPlaying'
          /\ \A s \in Stems :
               IF loadState[s] = "loaded"
               THEN /\ stemPlayersRef'[s].state = "started"
                    /\ stemPlayersRef'[s].startTime = clock
               ELSE stemPlayersRef'[s].state = "stopped"]_vars

(* C12: once no stem is loading any more, each load having completed or     *)
(* failed, isLoading is false; failed and loaded stems are counted alike.   *)
C12_SettledLoadsLeaveLoading ==
  /\ loadedCount = Cardinality({s \in Stems : loadState[s] # "loading"})
  /\ (\A s \in Stems : loadState[s] # "loading") => ~isLoading

C12_Witness ==
  /\ \E s \in Stems : loadState[s] = "failed"
  /\ \E s \in Stems : loadState[s] = "loaded"
  /\ \A s \in Stems : loadState[s] # "loading"
  /\ ~isLoading

(* C13: no node of a stem is ever disposed twice, and once the view has     *)
(* left the page every node that was created has been disposed exactly      *)
(* once, whenever the unmount came with respect to initializeStems.         *)
C13_NodesDisposedExactlyOnce ==
  \A s \in Stems :
    /\ stemNodes[s].disposed <= 1
    /\ (~life.mounted /\ stemNodes[s].created) => stemNodes[s].disposed = 1

(* C14: while a capture is in progress the loop flag of the player is       *)
(* false, and the step that ends a capture successfully leaves the flag at  *)
(* its value from before the call.                                          *)
C14_LoopOffDuringCapture ==
  /\ [](dl.pc = "waiting" => ~player.loop)
  /\ [][(dl.pc = "waiting" /\ dl'.pc = "idle" /\ outcome'.file # "none")
          => player'.loop = dl.preLoop]_vars

(* C15: a capture ends, with a file or with a failure of the recorder,      *)
(* when (source duration / playbackRate of the call) + 500 ms have passed   *)
(* since the one-shot play began; at playbackRate 1.0 that is at least      *)
(* 4.5 s for a source of 4 s or more.                                       *)
C15_CaptureLastsDurationPlusPostRoll ==
  [][(dl.pc = "waiting" /\ dl'.pc = "idle")
       => /\ dl.elapsed = (TrackDuration * 100) \div dl.rate + 500
          /\ dl.rate = 100 => dl.elapsed >= 4500]_vars

C15_Witness ==
  /\ dl.pc = "waiting" /\ dl.rate = 100 /\ formatRecorder = "recording"
  /\ dl.elapsed >= 4500 /\ dl.elapsed = dl.waitMs
  /\ player.state = "stopped"

(* the sum of the offsets of a set of presets for one band, in dB *)
RECURSIVE OffsetSum(_, _)
OffsetSum(set, band) ==
  IF set = {} THEN 0
  ELSE LET p == CHOOSE q \in set : TRUE
       IN  PresetValues[p][band] + OffsetSum(set \ {p}, band)

(* the presets selected *)
Selection == {card.masteringPresets[i] : i \in 1..Len(card.masteringPresets)}

(* C17: for every selection of mastering presets each band gain of the      *)
(* mastering EQ is the arithmetic mean of the selected presets' offsets     *)
(* for that band (gain * count = sum), and 0/0/0 with nothing selected.     *)
C17_GainsAreMeanOfSelection ==
  /\ Cardinality(Selection) = Len(card.masteringPresets)
  /\ \A b \in Bands :
       eq3[b] * Cardinality(Selection) = OffsetSum(Selection, b) * GainUnit
  /\ Selection = {} => \A b \in Bands : eq3[b] = 0

C17_Witness ==
  /\ Selection = {"warm", "bright", "airy"}
  /\ eq3 = [low |-> 0, mid |-> -40, high |-> 140]

(* C16: a call of downloadTransformed while the duration is still 0 only    *)
(* shows the not-ready alert: no recorder is created or started, the        *)
(* player, its loop flag, isRecording and the connections keep their        *)
(* values, and the call is over at once.                                    *)
C16_NotReadyRejectedAtOnce ==
  [][(DownloadTransformed /\ card.duration = 0)
       => /\ outcome' = Alert(NotReady)
          /\ formatRecorder' = formatRecorder
          /\ player' = player
          /\ card' = card
          /\ connections' = connections
          /\ pendingStops' = pendingStops
          /\ dl' = dl /\ dl'.pc = "idle"]_vars

C16_Witness ==
  /\ outcome = Alert(NotReady)
  /\ card.duration = 0 /\ ~player.loaded
  /\ HasEffects(card)
  /\ formatRecorder = "none" /\ ~card.isRecording /\ dl.pc = "idle"
  /\ player.state = "stopped" /\ player.loop = card.loopEnabled

(* the enabled effects that come before e in the fixed order *)
Before(enabled, e) == {f \in enabled : EffectRank[f] < EffectRank[e]}

(* the node that feeds effect e: the nearest enabled effect before it, or  *)
(* the mastering EQ                                                        *)
Feeder(enabled, e) ==
  LET b == Before(enabled, e)
  IN  IF b = {} THEN "eq3"
      ELSE CHOOSE f \in b : \A g \in b : EffectRank[g] <= EffectRank[f]

(* the node that feeds no effect *)
TailNode(enabled) ==
  IF enabled = {} THEN "eq3"
  ELSE CHOOSE f \in enabled : \A g \in enabled : EffectRank[g] <= EffectRank[f]

(* the connection graph that belongs to a set of enabled effects *)
ChainOf(enabled) ==
  {<<"player", "pitchShifter">>, <<"pitchShifter", "eq3">>}
    \cup {<<Feeder(enabled, e), e>> : e \in enabled}
    \cup {<<TailNode(enabled), "recorder">>,
          <<TailNode(enabled), "destination">>}

(* C18: the connections a chain rebuild leaves are a function of the set    *)
(* of enabled effects alone, whatever toggles and captures came before.     *)
C18_RebuildDependsOnEnabledSetOnly ==
  [][card'.enabled # card.enabled
       => connections' = ChainOf(card'.enabled)]_vars

C18_Witness ==
  /\ card.enabled = {"delay", "chorus"}
  /\ connections = ChainOf({"chorus", "delay"})
  /\ <<"delay", "chorus">> \in connections
  /\ formatRecorder = "disposed"

(* C19: after a rebuild the pitch shifter feeds the one mastering EQ and    *)
(* nothing else, nothing else feeds the EQ, no edge starts or ends at a     *)
(* disabled effect, no edge leads to the recorder of a capture, and there   *)
(* are exactly as many edges as the enabled set prescribes.                 *)
C19_RebuildLeavesNoStaleEdge ==
  [][card'.enabled # card.enabled
       => /\ {c \in connections' : c[1] = "pitchShifter" \/ c[2] = "eq3"}
               = {<<"pitchShifter", "eq3">>}
          /\ \A c \in connections' :
               /\ c[1] \notin Effects \ card'.enabled
               /\ c[2] \notin Effects \ card'.enabled
               /\ c[2] # "formatRecorder"
          /\ Cardinality(connections') = Cardinality(card'.enabled) + 4
     ]_vars

C19_Witness ==
  /\ formatRecorder = "recording" /\ dl.pc = "waiting"
  /\ card.enabled = {"distortion"}
  /\ \A c \in connections : c[2] # "formatRecorder" /\ c[1] # "reverb"
  /\ <<"pitchShifter", "eq3">> \in connections

(* C20: when the last gesture on the transport was a seek made while        *)
(* Playing and every stop notification has been processed, isPlaying is     *)
(* true and the reported position is the target, which lies in              *)
(* [0, duration].                                                           *)
C20_SeekKeepsPlaying ==
  (seek.wasPlaying /\ pendingStops = 0)
    => /\ card.isPlaying
       /\ card.currentTime = seek.target
       /\ seek.target \in 0..card.duration

(* C21: play while the voice is still loading does nothing: in the          *)
(* multi-stem player no stem is started and isPlaying stays false; in the   *)
(* single-track player the player is not started, isPlaying stays false     *)
(* and no alert is shown.                                                   *)
C21_PlayWhileLoadingIsSilent ==
  [][/\ (TogglePlay /\ \E s \in Stems : loadState[s] = "loading")
          => /\ stemPlayersRef' = stemPlayersRef
             /\ isPlaying' = isPlaying /\ ~isPlaying'
     /\ (CardTogglePlay /\ ~player.loaded /\ ~card.isPlaying)
          => /\ player' = player
             /\ ~card'.isPlaying
             /\ outcome'.alert = "none"]_vars

(* the nodes of stem s after effect p is switched off and on again with     *)
(* nothing else changed in between                                          *)
OffAndOn(s, p) ==
  LET st    == stemStates[s]
      off   == EnabledCase(st, stemPlayersRef[s], p, FALSE)
      stOff == [st EXCEPT ![p] = FALSE]
  IN  EnabledCase(stOff, off, p, TRUE)

(* C22: switching an enabled effect off and on again, with no parameter     *)
(* changed in between, gives the engine the wet level and parameters it     *)
(* had before: in the multi-stem player the nodes of the stem are as they   *)
(* were, in the single-track player a toggle changes neither the wet        *)
(* levels nor the stored mixes.                                             *)
C22_OffAndOnRestoresValues ==
  /\ [](\A s \in Stems, p \in EffectToggles :
          stemStates[s][p] => OffAndOn(s, p) = stemPlayersRef[s])
  /\ [][card'.enabled # card.enabled
          => effectUnits' = effectUnits /\ card'.mix = card.mix]_vars

C22_Witness ==
  /\ stemStates[1].reverbEnabled /\ stemStates[1].reverbMix = 100
  /\ stemPlayersRef[1].reverbWet = 100
  /\ "delay" \in card.enabled /\ card.mix["delay"] = 50
  /\ effectUnits["delay"] = 50

(* C23: isRecording is true exactly while a capture is in progress, and a   *)
(* capture in progress leads to a state in which isRecording is false.      *)
C23_RecordingFlagFollowsCapture ==
  /\ [](card.isRecording <=> dl.pc = "waiting")
  /\ (dl.pc = "waiting") ~> ~card.isRecording

C23_Witness ==
  /\ ~card.isRecording /\ dl.pc = "idle"
  /\ formatRecorder = "recording"
  /\ outcome = Alert(FailedDownload)


(* the presets a sequence holds *)
Members(seq) == {seq[i] : i \in 1..Len(seq)}

(* C24: toggling the same mastering preset twice in succession restores     *)
(* the previous selection set and the previous mastering EQ gains, and no   *)
(* preset is ever contained more than once in the selection.                *)
C24_DoubleToggleRestores ==
  /\ \A i, j \in 1..Len(card.masteringPresets) :
       card.masteringPresets[i] = card.masteringPresets[j] => i = j
  /\ \A p \in Presets :
       LET once  == ToggledSelection(card.masteringPresets, p)
           twice == ToggledSelection(once, p)
       IN  /\ Members(once) # Members(card.masteringPresets)
           /\ Members(twice) = Members(card.masteringPresets)
           /\ MasteringGains(twice) = eq3

(* a selected preset that is not the last one was toggled off and on: the   *)
(* selection holds the same presets in another order, with the same gains   *)
C24_Witness ==
  /\ card.masteringPresets = <<"bright", "airy", "warm">>
  /\ ToggledSelection(ToggledSelection(card.masteringPresets, "bright"),
                      "bright") = <<"airy", "warm", "bright">>
  /\ eq3 = MasteringGains(<<"airy", "warm", "bright">>)


(* C25: while a recording is in progress the recorder created for it is     *)
(* fed by the final output node of the chain, also after an effect toggle   *)
(* made during the capture has rebuilt the chain.                           *)
C25_RecorderStaysAttached ==
  formatRecorder = "recording"
    => <<LastNode(card.enabled), "formatRecorder">> \in connections


(* the edges of a graph that do not lead to the recorder made by initAudio *)
HeardEdges(conn) == {c \in conn : c[2] # "recorder"}

C27_LoopFollowsStoredOutsideCapture ==
  ~card.isRecording => player.loop = card.loopEnabled


(* C28: isPlaying equals the transport state of the engine in every         *)
(* reachable state: in the multi-stem session it is true exactly when every *)
(* stem player is started, in the single-track player exactly when the      *)
(* player is started, once every stop notification has been processed.      *)
C28_IsPlayingIsTransportState ==
  /\ isPlaying <=> \A s \in Stems : stemPlayersRef[s].state = "started"
  /\ pendingStops = 0 => (card.isPlaying <=> player.state = "started")


(* the timers of a component that are running *)
Running(t) == t.orphans + (IF t.running THEN 1 ELSE 0)

(* C29: each player component has at most one progress-polling timer        *)
(* running at any time.                                                     *)
C29_AtMostOneProgressTimer ==
  /\ Running(intervalRef.session) <= 1
  /\ Running(intervalRef.card) <= 1


(* C30: in the multi-stem player the wet level of the reverb and of the     *)
(* delay of every stem is the stored mix while the effect is enabled and 0  *)
(* while it is disabled; a mix written while the effect is disabled leaves  *)
(* the engine as it is.                                                     *)
C30_StemWetFollowsEnabledAndMix ==
  \A s \in Stems :
    LET st == stemStates[s]
    IN  /\ stemPlayersRef[s].reverbWet
             = (IF st.reverbEnabled THEN st.reverbMix ELSE 0)
        /\ stemPlayersRef[s].delayWet
             = (IF st.delayEnabled THEN st.delayMix ELSE 0)
        /\ \A v \in SliderValues("reverbMix") :
             ~st.reverbEnabled
               => ApplyStemParam(s, "reverbMix", v) = stemPlayersRef
        /\ \A v \in SliderValues("delayMix") :
             ~st.delayEnabled
               => ApplyStemParam(s, "delayMix", v) = stemPlayersRef

(* the reverb of stem 1 is enabled and its mix was moved to full, the       *)
(* delay of stem 2 is off with its mix at the default                       *)
C30_Witness ==
  /\ stemStates[1].reverbEnabled /\ stemStates[1].reverbMix = 100
  /\ stemPlayersRef[1].reverbWet = 100
  /\ ~stemStates[2].delayEnabled /\ stemStates[2].delayMix = 25
  /\ stemPlayersRef[2].delayWet = 0

============================================================================
